---- MODULE Spec2Model ----
(***************************************************************************)
(* Model of arch_post_install (src/main.cpp): the YAML configuration is    *)
(* parsed into a forest of MenuItem, the forest is navigated in an ncurses *)
(* menu (run_menu), the checked leaves are collected into a command list   *)
(* (collect_actions) and the list is printed, written or executed (main).  *)
(***************************************************************************)
EXTENDS Integers, Sequences, FiniteSets, TLC

\* ------------------------------------------------------------------------
\* Bounds of the explored inputs.
\* ------------------------------------------------------------------------
\* Longest `items` sequence of a section body.
MaxItems == 2
\* Deepest nesting of `sections` fields below the top-level one.
MaxDepth == 2

\* ------------------------------------------------------------------------
\* Global constants (src/main.cpp:16-22).
\* ------------------------------------------------------------------------
AUR_MANAGER == "yay --noconfirm --answerdiff=None --answeredit=None"
AUR_MANAGER_ALIAS == "__MGR__"
NOTIFY_COMMAND == "notify-send -i dialog-information -t 5000 -u critical"
NOTIFY_COMMAND_ALIAS == "__NOTIFY__"

ITEM_CHECKBOX == "ITEM_CHECKBOX"
ITEM_SECTION == "ITEM_SECTION"

\* ------------------------------------------------------------------------
\* YAML::Node values.  A node is a record [k, v, e]: k is the node kind, v
\* the text of a scalar, e the elements of a sequence or the entries of a
\* mapping in document order; an entry is a "pair" node whose e holds the
\* key node and the value node.
\* ------------------------------------------------------------------------
YScalar(s) == [k |-> "scalar", v |-> s, e |-> <<>>]
YNull == [k |-> "null", v |-> "", e |-> <<>>]
YSeq(xs) == [k |-> "seq", v |-> "", e |-> xs]
YPair(key, val) == [k |-> "pair", v |-> "", e |-> <<key, val>>]
YEntry(name, val) == YPair(YScalar(name), val)
YMap(ps) == [k |-> "map", v |-> "", e |-> ps]
\* The invalid ("zombie") node that operator[] returns for a missing key.
YUndefined == [k |-> "undefined", v |-> "", e |-> <<>>]

IsScalar(n) == n.k = "scalar"
IsMap(n) == n.k = "map"
IsSequence(n) == n.k = "seq"
\* Node::operator bool.
IsDefined(n) == n.k # "undefined"

\* node[key] on a const node that is not a scalar: the value of the first
\* entry whose key is the scalar `key`, the zombie node when there is none
\* (always so for a null node or a sequence).
KeyMatches(n, key) == {i \in 1..Len(n.e) : IsScalar(n.e[i].e[1]) /\ n.e[i].e[1].v = key}
Subscript(n, key) ==
  IF IsMap(n) /\ KeyMatches(n, key) # {}
  THEN n.e[CHOOSE i \in KeyMatches(n, key) : \A j \in KeyMatches(n, key) : i <= j].e[2]
  ELSE YUndefined
\* node[key] throws BadSubscript on a scalar and InvalidNode on a zombie.
SubscriptThrows(n) == IsScalar(n) \/ ~IsDefined(n)

\* as<bool>(): the names yaml-cpp converts, in the three cases it accepts.
BoolTrueNames == {"y", "Y", "yes", "Yes", "YES", "true", "True", "TRUE", "on", "On", "ON"}
BoolFalseNames == {"n", "N", "no", "No", "NO", "false", "False", "FALSE", "off", "Off", "OFF"}
AsBoolThrows(n) == n.v \notin BoolTrueNames \cup BoolFalseNames
AsBool(n) == n.v \in BoolTrueNames

\* ------------------------------------------------------------------------
\* Actions (src/main.cpp:26-59).
\* ------------------------------------------------------------------------
NoAction == [kind |-> "null", pkg |-> "", commands |-> <<>>]
YayAction(p) == [kind |-> "YayAction", pkg |-> p, commands |-> <<>>]
ShAction(cmds) == [kind |-> "ShAction", pkg |-> "", commands |-> cmds]

\* std::regex_replace(s, regex(a), b) for a literal pattern a: every
\* non-overlapping occurrence of a, scanning from the left, becomes b.
RECURSIVE regex_replace(_, _, _)
regex_replace(s, a, b) ==
  IF Len(s) < Len(a) THEN s
  ELSE IF SubSeq(s, 1, Len(a)) = a
       THEN b \o regex_replace(SubSeq(s, Len(a) + 1, Len(s)), a, b)
       ELSE SubSeq(s, 1, 1) \o regex_replace(SubSeq(s, 2, Len(s)), a, b)

RECURSIVE JoinCommands(_, _)
JoinCommands(cmds, i) ==
  IF i > Len(cmds) THEN "" ELSE cmds[i] \o " && " \o JoinCommands(cmds, i + 1)

ShRender(cmds) ==
  LET joined == JoinCommands(cmds, 1)
      script == IF joined # "" THEN SubSeq(joined, 1, Len(joined) - 4) ELSE joined
  IN regex_replace(regex_replace(script, AUR_MANAGER_ALIAS, AUR_MANAGER),
                   NOTIFY_COMMAND_ALIAS, NOTIFY_COMMAND)

YayRender(p) == AUR_MANAGER \o " -S " \o p

render(a) == IF a.kind = "YayAction" THEN YayRender(a.pkg) ELSE ShRender(a.commands)

\* ------------------------------------------------------------------------
\* Menu (src/main.cpp:63-189).
\* ------------------------------------------------------------------------
MenuItem(l, t, c, ch, a) == [label |-> l, type |-> t, checked |-> c, children |-> ch, action |-> a]
\* A default-constructed MenuItem.
DefaultMenuItem == MenuItem("", ITEM_CHECKBOX, TRUE, <<>>, NoAction)

\* The outcome of a call that may throw: exc tells whether it threw.
Returned(v) == [exc |-> FALSE, val |-> v]
Thrown == [exc |-> TRUE, val |-> <<>>]

\* The loop over a `commands` sequence (also used for after.commands).
RECURSIVE ScalarEntries(_, _)
ScalarEntries(xs, i) ==
  IF i > Len(xs) THEN <<>>
  ELSE (IF IsScalar(xs[i]) THEN <<xs[i].v>> ELSE <<>>) \o ScalarEntries(xs, i + 1)

CommandList(commandsNode) ==
  IF IsSequence(commandsNode) THEN ScalarEntries(commandsNode.e, 1)
  ELSE IF IsScalar(commandsNode) THEN <<commandsNode.v>>
  ELSE <<>>

ItemAction(node, label) ==
  IF IsDefined(Subscript(node, "commands"))
  THEN LET cmds == CommandList(Subscript(node, "commands"))
       IN IF cmds # <<>> THEN ShAction(cmds) ELSE YayAction(label)
  ELSE YayAction(label)

parse_item(node) ==
  IF IsScalar(node)
  THEN Returned(MenuItem(node.v, ITEM_CHECKBOX, TRUE, <<>>, YayAction(node.v)))
  ELSE IF IsMap(node) /\ IsDefined(Subscript(node, "name")) /\ IsScalar(Subscript(node, "name"))
  THEN LET label == Subscript(node, "name").v
           enabled == Subscript(node, "enabled")
       IN IF IsDefined(enabled) /\ IsScalar(enabled)
          THEN IF AsBoolThrows(enabled) THEN Thrown
               ELSE Returned(MenuItem(label, ITEM_CHECKBOX, AsBool(enabled), <<>>,
                                      ItemAction(node, label)))
          ELSE Returned(MenuItem(label, ITEM_CHECKBOX, TRUE, <<>>, ItemAction(node, label)))
  ELSE Returned(DefaultMenuItem)

\* for (item : itemsNode) children.push_back(parse_item(item))
RECURSIVE ItemsLoop(_, _, _)
ItemsLoop(xs, i, children) ==
  IF i > Len(xs) THEN Returned(children)
  ELSE LET r == parse_item(xs[i])
       IN IF r.exc THEN Thrown ELSE ItemsLoop(xs, i + 1, Append(children, r.val))

ParseItemsField(itemsNode, children) ==
  IF IsDefined(itemsNode) /\ IsSequence(itemsNode) THEN ItemsLoop(itemsNode.e, 1, children)
  ELSE IF IsDefined(itemsNode) /\ IsScalar(itemsNode)
  THEN Returned(Append(children, parse_item(itemsNode).val))
  ELSE Returned(children)

RECURSIVE parse_section(_)
RECURSIVE SubsectionsLoop(_, _, _)
RECURSIVE SectionLoop(_, _, _)

\* for (subsec : subsectionsNode) children.insert(end, parse_section(subsec))
SubsectionsLoop(xs, i, children) ==
  IF i > Len(xs) THEN Returned(children)
  ELSE LET r == parse_section(xs[i])
       IN IF r.exc THEN Thrown ELSE SubsectionsLoop(xs, i + 1, children \o r.val)

ParseSubsectionsField(subsectionsNode) ==
  IF IsDefined(subsectionsNode) /\ IsSequence(subsectionsNode)
  THEN SubsectionsLoop(subsectionsNode.e, 1, <<>>)
  ELSE Returned(<<>>)

\* The loop of parse_section over the entries of the mapping.
SectionLoop(entries, i, items) ==
  IF i > Len(entries) THEN Returned(items)
  ELSE LET key == entries[i].e[1]
           body == entries[i].e[2]
       IN IF ~IsScalar(key) THEN SectionLoop(entries, i + 1, items)
          ELSE IF SubscriptThrows(body) THEN Thrown
          ELSE LET subs == ParseSubsectionsField(Subscript(body, "sections"))
               IN IF subs.exc THEN Thrown
                  ELSE LET all == ParseItemsField(Subscript(body, "items"), subs.val)
                       IN IF all.exc THEN Thrown
                          ELSE SectionLoop(entries, i + 1,
                                 Append(items, MenuItem(key.v, ITEM_SECTION, TRUE, all.val, NoAction)))

parse_section(section) ==
  IF ~IsDefined(section) \/ ~IsMap(section) THEN Returned(<<>>)
  ELSE SectionLoop(section.e, 1, <<>>)

RECURSIVE RootLoop(_, _, _)
RootLoop(xs, i, result) ==
  IF i > Len(xs) THEN Returned(result)
  ELSE LET r == parse_section(xs[i])
       IN IF r.exc THEN Thrown ELSE RootLoop(xs, i + 1, result \o r.val)

parse_root(root) ==
  IF ~IsDefined(root) \/ ~IsMap(root) THEN Returned(<<>>)
  ELSE LET sectionsNode == Subscript(root, "sections")
       IN IF ~IsDefined(sectionsNode) THEN Returned(<<>>)
          ELSE IF IsMap(sectionsNode) THEN parse_section(sectionsNode)
          ELSE IF IsSequence(sectionsNode) THEN RootLoop(sectionsNode.e, 1, <<>>)
          ELSE Returned(<<>>)

parse_after(root) ==
  IF ~IsDefined(root) \/ ~IsMap(root) THEN Returned(<<>>)
  ELSE IF SubscriptThrows(Subscript(root, "after")) THEN Thrown
  ELSE Returned(CommandList(Subscript(Subscript(root, "after"), "commands")))

\* ------------------------------------------------------------------------
\* Action collection (src/main.cpp:289-297).
\* ------------------------------------------------------------------------
RECURSIVE collect_actions(_, _)
RECURSIVE CollectLoop(_, _, _)
\* CollectLoop without the test of `checked`.
CollectLoop_IgnoresChecked(items, i, out) ==
  IF i > Len(items) THEN out
  ELSE LET item == items[i]
       IN IF item.type = ITEM_CHECKBOX /\ item.action.kind # "null"
          THEN CollectLoop(items, i + 1, Append(out, render(item.action)))
          ELSE IF item.type = ITEM_SECTION
          THEN CollectLoop(items, i + 1, collect_actions(item.children, out))
          ELSE CollectLoop(items, i + 1, out)

CollectLoop(items, i, out) ==
  IF i > Len(items) THEN out
  ELSE LET item == items[i]
       IN IF item.type = ITEM_CHECKBOX /\ item.checked /\ item.action.kind # "null"
          THEN CollectLoop(items, i + 1, Append(out, render(item.action)))
          ELSE IF item.type = ITEM_SECTION
          THEN CollectLoop(items, i + 1, collect_actions(item.children, out))
          ELSE CollectLoop(items, i + 1, out)

collect_actions(items, out) == CollectLoop(items, 1, out)

\* ------------------------------------------------------------------------
\* The configuration documents explored: a base document varied in one part
\* at a time (the items of a section, the nesting of sections, the `after`
\* field, the top level).
\* ------------------------------------------------------------------------
SeqsUpTo(S, n) == UNION {[1..k -> S] : k \in 0..n}

ItemVim == YScalar("vim")
ItemGit == YScalar("git")
ItemCustom ==
  YMap(<<YEntry("name", YScalar("custom")), YEntry("enabled", YScalar("false")),
         YEntry("commands", YSeq(<<YScalar("echo a"), YScalar("echo b")>>))>>)
ItemNoName == YMap(<<YEntry("enabled", YScalar("true"))>>)
ItemBadEnabled == YMap(<<YEntry("name", YScalar("broken")), YEntry("enabled", YScalar("maybe"))>>)
ItemAlias ==
  YMap(<<YEntry("name", YScalar("editor")), YEntry("enabled", YScalar("Yes")),
         YEntry("commands", YScalar("__MGR__ -S neovim"))>>)
ItemNoCommands ==
  YMap(<<YEntry("name", YScalar("tool")), YEntry("enabled", YNull),
         YEntry("commands", YSeq(<<YNull, YSeq(<<>>)>>))>>)
ItemNeither == YSeq(<<YScalar("nested")>>)
ItemNodes ==
  {ItemVim, ItemCustom, ItemNoName, ItemBadEnabled, ItemAlias, ItemNoCommands, ItemNeither}

ItemsFields ==
  {YUndefined, YNull, ItemVim, ItemCustom} \cup {YSeq(xs) : xs \in SeqsUpTo(ItemNodes, MaxItems)}

AfterStd == YMap(<<YEntry("commands", YSeq(<<YScalar("echo done")>>))>>)
AfterFields ==
  {YUndefined, YNull, YScalar("oops"), YMap(<<>>), AfterStd,
   YMap(<<YEntry("commands", YScalar("__NOTIFY__ finished"))>>),
   YMap(<<YEntry("commands", YSeq(<<YScalar("echo one"), YNull, YScalar("echo two")>>))>>)}

Field(name, val) == IF IsDefined(val) THEN <<YEntry(name, val)>> ELSE <<>>
Body(sectionsField, itemsField) ==
  YMap(Field("sections", sectionsField) \o Field("items", itemsField))
Document(sectionsField, afterField) ==
  YMap(Field("sections", sectionsField) \o Field("after", afterField))

LeafItems == YSeq(<<ItemVim, ItemCustom>>)
LeafBodies == {YScalar("oops"), YNull, Body(YUndefined, LeafItems)}

RECURSIVE DeepBody(_)
DeepBody(d) ==
  IF d = 0 THEN Body(YUndefined, LeafItems)
  ELSE Body(YSeq(<<YMap(<<YEntry("sub", DeepBody(d - 1))>>)>>), YSeq(<<ItemGit>>))

GroupMixed(d) ==
  YMap(<<YPair(YSeq(<<>>), YNull), YEntry("empty", YMap(<<>>)), YEntry("more", DeepBody(d))>>)

RECURSIVE Bodies(_)
RECURSIVE SectionsFields(_)
Groups(d) == {YMap(<<YEntry("sec", b)>>) : b \in Bodies(d)} \cup {GroupMixed(d)}
SectionsFields(d) ==
  Groups(d) \cup {YSeq(<<g>>) : g \in Groups(d)}
    \cup {YSeq(<<GroupMixed(d), YMap(<<YEntry("last", Body(YUndefined, ItemVim))>>)>>)}
Bodies(d) ==
  IF d = 0 THEN LeafBodies
  ELSE LeafBodies \cup {Body(sf, YSeq(<<ItemGit>>)) : sf \in SectionsFields(d - 1)}

DocsItems ==
  {Document(YMap(<<YEntry("core", Body(YUndefined, f))>>), AfterStd) : f \in ItemsFields}
DocsSections == {Document(sf, AfterStd) : sf \in SectionsFields(MaxDepth)}
DocsAfter ==
  {Document(YMap(<<YEntry("core", Body(YUndefined, LeafItems))>>), af) : af \in AfterFields}
DocsTop ==
  {YScalar("hello"), YNull, YSeq(<<ItemVim>>), YMap(<<>>),
   Document(YUndefined, AfterStd), Document(YScalar("oops"), AfterStd),
   Document(YMap(<<>>), AfterStd)}
Docs == DocsItems \cup DocsSections \cup DocsAfter \cup DocsTop

\* ------------------------------------------------------------------------
\* The process (src/main.cpp:340-459), from the point where the document
\* has been loaded.
\* ------------------------------------------------------------------------
VARIABLES
  pc,             \* position of the process in main
  root,           \* the loaded YAML document
  write_flag,     \* -w
  exec_flag,      \* -e
  menu,           \* the forest, std::vector<MenuItem>
  after_commands, \* the trailing commands
  stack,          \* the MenuState of every active run_menu call, outermost first
  session,        \* the curses session: "none", "acquired" or "released"
  commands,       \* the final command sequence
  executed,       \* the std::system calls made so far, with their return status
  stderr,         \* the commands reported as failed
  script          \* the lines printed to stdout or written to the script file

vars ==
  <<pc, root, write_flag, exec_flag, menu, after_commands, stack, session,
    commands, executed, stderr, script>>

\* MenuState: `items` is the position of the displayed vector in the forest
\* (the indices, from the root, of the sections it was entered through),
\* `selected` the index of the cursor.
MenuState(path, sel) == [items |-> path, selected |-> sel]

\* The vector a MenuState points to.
RECURSIVE ItemsAt(_, _)
ItemsAt(items, path) ==
  IF path = <<>> THEN items ELSE ItemsAt(items[path[1] + 1].children, Tail(path))

\* sel.checked = !sel.checked on the item `sel` of the vector at `path`.
RECURSIVE ToggleAt(_, _, _)
\* ToggleAt flipping the item after the selected one as well.
ToggleAt_FlipsNeighbour(items, path, sel) ==
  IF path = <<>>
  THEN [i \in 1..Len(items) |->
          IF i \in {sel + 1, sel + 2} THEN [items[i] EXCEPT !.checked = ~items[i].checked]
          ELSE items[i]]
  ELSE [items EXCEPT ![path[1] + 1].children =
          ToggleAt(items[path[1] + 1].children, Tail(path), sel)]

ToggleAt(items, path, sel) ==
  IF path = <<>>
  THEN [items EXCEPT ![sel + 1].checked = ~items[sel + 1].checked]
  ELSE [items EXCEPT ![path[1] + 1].children =
          ToggleAt(items[path[1] + 1].children, Tail(path), sel)]

Top == stack[Len(stack)]
TopItems == ItemsAt(menu, Top.items)

\* What draw_menu shows: one row per item of the active vector.
draw_menu(state) ==
  [i \in 1..Len(ItemsAt(menu, state.items)) |->
     LET item == ItemsAt(menu, state.items)[i]
     IN [text |-> IF item.type = ITEM_CHECKBOX
                  THEN (IF item.checked THEN "[x] " ELSE "[ ] ") \o item.label
                  ELSE "-> " \o item.label,
         reverse |-> (i - 1 = state.selected)]]

Init ==
  /\ pc = "loaded"
  /\ root \in Docs
  /\ write_flag \in BOOLEAN
  /\ exec_flag \in BOOLEAN
  /\ menu = <<>>
  /\ after_commands = <<>>
  /\ stack = <<>>
  /\ session = "none"
  /\ commands = <<>>
  /\ executed = <<>>
  /\ stderr = <<>>
  /\ script = <<>>

\* main, line 403.  An exception of parse_root is not caught: std::terminate.
ParseRoot ==
  /\ pc = "loaded"
  /\ LET r == parse_root(root)
     IN IF r.exc
        THEN pc' = "abort_parse_root" /\ UNCHANGED menu
        ELSE pc' = "parsed" /\ menu' = r.val
  /\ UNCHANGED <<root, write_flag, exec_flag, after_commands, stack, session,
                 commands, executed, stderr, script>>

\* main, line 404.
ParseAfter ==
  /\ pc = "parsed"
  /\ LET r == parse_after(root)
     IN IF r.exc
        THEN pc' = "abort_parse_after" /\ UNCHANGED after_commands
        ELSE pc' = "ready" /\ after_commands' = r.val
  /\ UNCHANGED <<root, write_flag, exec_flag, menu, stack, session,
                 commands, executed, stderr, script>>

\* main, lines 406-416: initscr, the handlers, and the call run_menu(menu).
InitScreen ==
  /\ pc = "ready"
  /\ session' = "acquired"
  /\ stack' = <<MenuState(<<>>, 0)>>
  /\ pc' = "nav"
  /\ UNCHANGED <<root, write_flag, exec_flag, menu, after_commands,
                 commands, executed, stderr, script>>

\* run_menu, case KEY_UP.
KeyUp ==
  /\ pc = "nav"
  /\ stack' = [stack EXCEPT ![Len(stack)].selected =
                 IF Top.selected > 0 THEN Top.selected - 1 ELSE Top.selected]
  /\ UNCHANGED <<pc, root, write_flag, exec_flag, menu, after_commands, session,
                 commands, executed, stderr, script>>

\* run_menu, case KEY_DOWN.
KeyDown ==
  /\ pc = "nav"
  /\ stack' = [stack EXCEPT ![Len(stack)].selected =
                 IF Top.selected < Len(TopItems) - 1 THEN Top.selected + 1 ELSE Top.selected]
  /\ UNCHANGED <<pc, root, write_flag, exec_flag, menu, after_commands, session,
                 commands, executed, stderr, script>>

\* run_menu, case Enter / KEY_RIGHT.  items->at(selected) throws
\* std::out_of_range when the vector has no such item; nothing catches it.
Activate ==
  /\ pc = "nav"
  /\ IF Top.selected >= Len(TopItems)
     THEN pc' = "abort_run_menu" /\ UNCHANGED <<menu, stack>>
     ELSE LET sel == TopItems[Top.selected + 1]
          IN IF sel.type = ITEM_CHECKBOX
             THEN /\ menu' = ToggleAt(menu, Top.items, Top.selected)
                  /\ UNCHANGED <<pc, stack>>
             ELSE IF sel.type = ITEM_SECTION /\ sel.children # <<>>
             THEN /\ stack' = Append(stack, MenuState(Top.items \o <<Top.selected>>, 0))
                  /\ UNCHANGED <<pc, menu>>
             ELSE UNCHANGED <<pc, menu, stack>>
  /\ UNCHANGED <<root, write_flag, exec_flag, after_commands, session,
                 commands, executed, stderr, script>>

\* Back leaving every nested menu at once.
Back_LeavesAll ==
  /\ pc = "nav"
  /\ stack' = IF Len(stack) = 1 THEN <<>> ELSE <<stack[1]>>
  /\ IF Len(stack) = 1
     THEN pc' = "collect" /\ session' = "released"
     ELSE UNCHANGED <<pc, session>>
  /\ UNCHANGED <<root, write_flag, exec_flag, menu, after_commands,
                 commands, executed, stderr, script>>

\* run_menu, case ESC / KEY_LEFT / q / Q / backspace: return.  The return of
\* the outermost call is followed by cleanup() (main, line 417).
Back ==
  /\ pc = "nav"
  /\ stack' = SubSeq(stack, 1, Len(stack) - 1)
  /\ IF Len(stack) = 1
     THEN pc' = "collect" /\ session' = "released"
     ELSE UNCHANGED <<pc, session>>
  /\ UNCHANGED <<root, write_flag, exec_flag, menu, after_commands,
                 commands, executed, stderr, script>>

\* run_menu, any other key: the switch has no case for it.
OtherKey ==
  /\ pc = "nav"
  /\ UNCHANGED vars

\* handle_exit on SIGINT or SIGTERM, once the handlers are installed:
\* cleanup() and std::exit(0).
Signal ==
  /\ pc \in {"nav", "collect", "output"}
  /\ session' = "released"
  /\ pc' = "signalled"
  /\ UNCHANGED <<root, write_flag, exec_flag, menu, after_commands, stack,
                 commands, executed, stderr, script>>

\* main, lines 419-422.
CollectResults ==
  /\ pc = "collect"
  /\ commands' = collect_actions(menu, <<>>) \o after_commands
  /\ pc' = "output"
  /\ UNCHANGED <<root, write_flag, exec_flag, menu, after_commands, stack, session,
                 executed, stderr, script>>

\* main, lines 425-442: the script is written, then run with bash if -e.
WriteScript ==
  /\ pc = "output"
  /\ write_flag
  /\ script' = <<"# Generated script">> \o commands
  /\ IF exec_flag
     THEN \E ret \in {0, 1} : executed' = <<[cmd |-> "bash script", ret |-> ret]>>
     ELSE UNCHANGED executed
  /\ pc' = "returned"
  /\ UNCHANGED <<root, write_flag, exec_flag, menu, after_commands, stack, session,
                 commands, stderr>>

\* ExecDirectly without the break after a failed command.
ExecDirectly_NoBreak ==
  /\ pc = "output"
  /\ ~write_flag /\ exec_flag
  /\ IF Len(executed) = Len(commands)
     THEN pc' = "returned" /\ UNCHANGED <<executed, stderr>>
     ELSE LET cmd == commands[Len(executed) + 1]
          IN \E ret \in {0, 1} :
               /\ executed' = Append(executed, [cmd |-> cmd, ret |-> ret])
               /\ stderr' = IF ret # 0 THEN Append(stderr, cmd) ELSE stderr
               /\ UNCHANGED pc
  /\ UNCHANGED <<root, write_flag, exec_flag, menu, after_commands, stack, session,
                 commands, script>>

\* main, lines 443-452: one iteration of the loop over the commands, or its
\* end; a non-zero status is reported and breaks the loop.
ExecDirectly ==
  /\ pc = "output"
  /\ ~write_flag /\ exec_flag
  /\ IF Len(executed) = Len(commands)
     THEN pc' = "returned" /\ UNCHANGED <<executed, stderr>>
     ELSE LET cmd == commands[Len(executed) + 1]
          IN \E ret \in {0, 1} :
               /\ executed' = Append(executed, [cmd |-> cmd, ret |-> ret])
               /\ IF ret # 0
                  THEN stderr' = Append(stderr, cmd) /\ pc' = "returned"
                  ELSE UNCHANGED <<stderr, pc>>
  /\ UNCHANGED <<root, write_flag, exec_flag, menu, after_commands, stack, session,
                 commands, script>>

\* main, lines 453-456.
PrintScript ==
  /\ pc = "output"
  /\ ~write_flag /\ ~exec_flag
  /\ script' = <<"# Generated script">> \o commands
  /\ pc' = "returned"
  /\ UNCHANGED <<root, write_flag, exec_flag, menu, after_commands, stack, session,
                 commands, executed, stderr>>

Next ==
  \/ ParseRoot
  \/ ParseAfter
  \/ InitScreen
  \/ KeyUp
  \/ KeyDown
  \/ Activate
  \/ Back
  \/ OtherKey
  \/ Signal
  \/ CollectResults
  \/ WriteScript
  \/ ExecDirectly
  \/ PrintScript

Spec == Init /\ [][Next]_vars

\* ------------------------------------------------------------------------
\* Vocabulary of the properties: nodes are named by their path, the indices
\* of the node and of its ancestors from the root of the forest.
\* ------------------------------------------------------------------------
RECURSIVE NodePaths(_)
NodePaths(items) ==
  UNION {{<<i>>} \cup {<<i>> \o p : p \in NodePaths(items[i + 1].children)} :
           i \in 0..(Len(items) - 1)}

RECURSIVE NodeAt(_, _)
NodeAt(items, p) ==
  IF Len(p) = 1 THEN items[p[1] + 1] ELSE NodeAt(items[p[1] + 1].children, Tail(p))

\* Document order of two paths neither of which is a prefix of the other.
PathBefore(p, q) ==
  \E k \in 1..Len(p) :
    /\ k <= Len(q)
    /\ \A j \in 1..(k - 1) : p[j] = q[j]
    /\ p[k] < q[k]

Terminated == pc \in {"returned", "signalled", "abort_parse_root", "abort_parse_after", "abort_run_menu"}
CursorPath == Top.items \o <<Top.selected>>
CursorOnItem == pc = "nav" /\ Top.selected < Len(TopItems)
OnCheckbox == CursorOnItem /\ TopItems[Top.selected + 1].type = ITEM_CHECKBOX
OnSection == CursorOnItem /\ TopItems[Top.selected + 1].type = ITEM_SECTION
OnEmptySection == OnSection /\ TopItems[Top.selected + 1].children = <<>>
DirectMode == exec_flag /\ ~write_flag

CheckedLeaves ==
  {p \in NodePaths(menu) :
     /\ NodeAt(menu, p).type = ITEM_CHECKBOX
     /\ NodeAt(menu, p).checked
     /\ NodeAt(menu, p).action.kind # "null"}
DocumentRank(p) == Cardinality({q \in CheckedLeaves : PathBefore(q, p)}) + 1

\* ------------------------------------------------------------------------
\* C1.  The final command sequence is the rendered actions of the checked
\* Checkbox leaves that carry an action, in document (depth-first) order,
\* followed by the trailing commands in their order; with nothing checked
\* it is exactly the trailing commands.
\* ------------------------------------------------------------------------
C1_OrderPreservation ==
  pc = "output" =>
    /\ Len(commands) = Cardinality(CheckedLeaves) + Len(after_commands)
    /\ \A p \in CheckedLeaves : commands[DocumentRank(p)] = render(NodeAt(menu, p).action)
    /\ \A j \in 1..Len(after_commands) :
         commands[Cardinality(CheckedLeaves) + j] = after_commands[j]
    /\ (CheckedLeaves = {} => commands = after_commands)
    /\ (Subscript(root, "after") = AfterStd => after_commands = <<"echo done">>)

C1_Witness ==
  /\ pc = "output"
  /\ after_commands # <<>>
  /\ Cardinality(CheckedLeaves) >= 2
  /\ \E p \in CheckedLeaves : Len(p) >= 3
  /\ \E p \in NodePaths(menu) :
       NodeAt(menu, p).type = ITEM_CHECKBOX /\ ~NodeAt(menu, p).checked
  /\ \E p \in NodePaths(menu) : NodeAt(menu, p).checked # NodeAt(parse_root(root).val, p).checked

\* ------------------------------------------------------------------------
\* C2.  While navigating, the cursor of every frame lies within
\* 0 .. len(sequence) - 1, so that Activate always finds a node.
\* ------------------------------------------------------------------------
C2_CursorInRange ==
  /\ pc = "nav" =>
       \A i \in 1..Len(stack) :
         /\ 0 <= stack[i].selected
         /\ stack[i].selected <= Len(ItemsAt(menu, stack[i].items)) - 1
  /\ pc # "abort_run_menu"

SameShape ==
  /\ NodePaths(menu') = NodePaths(menu)
  /\ \A p \in NodePaths(menu) :
       /\ NodeAt(menu', p).label = NodeAt(menu, p).label
       /\ NodeAt(menu', p).type = NodeAt(menu, p).type
       /\ NodeAt(menu', p).action = NodeAt(menu, p).action

\* ------------------------------------------------------------------------
\* C3.  Activate on a Checkbox flips the checked flag of the node under the
\* cursor, once, and changes no other flag, no other field and no cursor;
\* no other event changes a node; no event adds, removes or reorders nodes.
\* ------------------------------------------------------------------------
C3_ToggleFrame ==
  [][pc = "nav" =>
       /\ SameShape
       /\ (Activate /\ OnCheckbox) =>
            /\ \A p \in NodePaths(menu) :
                 NodeAt(menu', p).checked =
                   (IF p = CursorPath THEN ~NodeAt(menu, p).checked ELSE NodeAt(menu, p).checked)
            /\ stack' = stack
            /\ pc' = "nav"
       /\ ~(Activate /\ OnCheckbox) => menu' = menu
       /\ (KeyUp \/ KeyDown \/ Back \/ OtherKey) => menu' = menu]_vars

C3_Witness ==
  /\ pc = "nav"
  /\ Len(stack) >= 2
  /\ Top.selected >= 1
  /\ OnCheckbox
  /\ Len(TopItems) >= 2
  /\ NodeAt(menu, CursorPath).checked # NodeAt(parse_root(root).val, CursorPath).checked

ValidItem(n) == IsScalar(n) \/ (IsMap(n) /\ IsScalar(Subscript(n, "name")))

\* ------------------------------------------------------------------------
\* C4.  A mapping item without a scalar `name` yields no node: every
\* Checkbox of the forest has an action and a non-empty label, and a section
\* has as many children as its `items` sequence has valid items.
\* ------------------------------------------------------------------------
C4_NamelessItemDropped ==
  pc = "parsed" =>
    /\ \A p \in NodePaths(menu) :
         NodeAt(menu, p).type = ITEM_CHECKBOX =>
           NodeAt(menu, p).action.kind # "null" /\ NodeAt(menu, p).label # ""
    /\ \A f \in ItemsFields :
         (IsSequence(f) /\ root = Document(YMap(<<YEntry("core", Body(YUndefined, f))>>), AfterStd)) =>
           Len(menu[1].children) = Cardinality({i \in 1..Len(f.e) : ValidItem(f.e[i])})

\* ------------------------------------------------------------------------
\* C5.  Building the forest from a document whose top level is a mapping
\* never aborts.
\* ------------------------------------------------------------------------
C5_ParseNeverAborts == IsMap(root) => pc # "abort_parse_root"

\* ------------------------------------------------------------------------
\* C6.  A document whose top level is not a mapping ends the run before the
\* terminal is initialised: no menu, no navigation, no command sequence.
\* ------------------------------------------------------------------------
C6_NonMappingIsFatal ==
  ~IsMap(root) =>
    /\ session = "none"
    /\ stack = <<>>
    /\ pc \notin {"nav", "collect", "output", "returned", "signalled"}

\* ------------------------------------------------------------------------
\* C7.  A process that acquired the terminal session never ends without
\* having released it.
\* ------------------------------------------------------------------------
C7_SessionReleased == Terminated => session # "acquired"

\* ------------------------------------------------------------------------
\* C8.  In direct-execution mode the commands run one at a time in the order
\* of the final sequence; the first non-zero status is reported and ends the
\* run, every earlier command having run once and no later one at all.
\* ------------------------------------------------------------------------
C8_StopOnFirstFailure ==
  DirectMode =>
    /\ Len(executed) <= Len(commands)
    /\ \A i \in 1..Len(executed) :
         /\ executed[i].cmd = commands[i]
         /\ i < Len(executed) => executed[i].ret = 0
    /\ stderr = IF executed # <<>> /\ executed[Len(executed)].ret # 0
                THEN <<executed[Len(executed)].cmd>> ELSE <<>>
    /\ (executed # <<>> /\ executed[Len(executed)].ret # 0) => pc = "returned"
    /\ pc = "returned" =>
         \/ Len(executed) = Len(commands)
         \/ executed[Len(executed)].ret # 0

C8_Witness ==
  /\ DirectMode
  /\ pc = "returned"
  /\ Len(executed) >= 2
  /\ Len(executed) < Len(commands)
  /\ executed[Len(executed)].ret # 0
  /\ stderr = <<commands[Len(executed)]>>

RECURSIVE Concat(_, _)
Concat(seqs, i) == IF i > Len(seqs) THEN <<>> ELSE seqs[i] \o Concat(seqs, i + 1)

ItemsOf(f) ==
  IF IsSequence(f) THEN [i \in 1..Len(f.e) |-> parse_item(f.e[i]).val]
  ELSE IF IsScalar(f) \/ IsMap(f) THEN <<parse_item(f).val>>
  ELSE <<>>

RECURSIVE SectionsOf(_)
GroupOf(g) ==
  IF ~IsMap(g) THEN <<>>
  ELSE Concat([i \in 1..Len(g.e) |->
                 IF ~IsScalar(g.e[i].e[1]) THEN <<>>
                 ELSE <<MenuItem(g.e[i].e[1].v, ITEM_SECTION, TRUE,
                                 SectionsOf(Subscript(g.e[i].e[2], "sections"))
                                   \o ItemsOf(Subscript(g.e[i].e[2], "items")),
                                 NoAction)>>], 1)
SectionsOf(sf) ==
  IF IsMap(sf) THEN GroupOf(sf)
  ELSE IF IsSequence(sf) THEN Concat([i \in 1..Len(sf.e) |-> GroupOf(sf.e[i])], 1)
  ELSE <<>>

\* ------------------------------------------------------------------------
\* C9.  The children of a Section are the nodes of its `sections` field,
\* given as one section group or as a sequence of groups, followed by the
\* nodes of its `items` field, given as one item (scalar or mapping) or as a
\* sequence of items; the top level accepts the same two forms of `sections`.
\* ------------------------------------------------------------------------
C9_ChildrenOrder == pc = "parsed" => menu = SectionsOf(Subscript(root, "sections"))

FramesNested(st) ==
  /\ st[1].items = <<>>
  /\ \A i \in 2..Len(st) :
       /\ st[i].items = st[i - 1].items \o <<st[i - 1].selected>>
       /\ NodeAt(menu, st[i].items).type = ITEM_SECTION
       /\ NodeAt(menu, st[i].items).children # <<>>

\* ------------------------------------------------------------------------
\* C10.  The frames form a stack: Activate on a Section with children pushes
\* a frame over those children with cursor 0, on an empty Section nothing;
\* Back in a nested frame pops that frame only and leaves the frames below
\* as they were when their Section was activated; run_menu returns to main
\* exactly on Back in the root frame, so each Back lowers the depth by one.
\* ------------------------------------------------------------------------
C10_StackDiscipline ==
  [][pc = "nav" =>
       /\ FramesNested(stack)
       /\ (Activate /\ OnSection /\ ~OnEmptySection) =>
            /\ Len(stack') = Len(stack) + 1
            /\ SubSeq(stack', 1, Len(stack)) = stack
            /\ ItemsAt(menu, stack'[Len(stack')].items) = TopItems[Top.selected + 1].children
            /\ stack'[Len(stack')].selected = 0
            /\ pc' = "nav"
       /\ (Activate /\ OnEmptySection) => (stack' = stack /\ pc' = "nav")
       /\ (Back /\ Len(stack) > 1) =>
            /\ Len(stack') = Len(stack) - 1
            /\ \A i \in 1..Len(stack') : stack'[i] = stack[i]
            /\ pc' = "nav"
       /\ (pc' = "collect") <=> (Back /\ Len(stack) = 1)
       /\ Back => Len(stack') = Len(stack) - 1
       /\ Len(stack') < Len(stack) => Back]_vars

C10_Witness ==
  /\ pc = "nav"
  /\ Len(stack) >= 3
  /\ stack[1].selected >= 1
  /\ Top.selected >= 1

====
